---- MODULE Spec2Model ----
(***************************************************************************)
(* Model of the chat session controller of float-chat                     *)
(* (src/src/components/ChatInterface.tsx, the version with override and   *)
(* clarification support, lines 1-226) together with the clarification    *)
(* buttons of the message view (src/unnamed/part_001, lines 86-91).       *)
(*                                                                         *)
(* Text is modelled as a sequence of one-character strings, so that        *)
(* String.prototype.trim is computed rather than assumed.  Message ids     *)
(* and timestamps (Date.now()) are left out: no handler reads them.        *)
(* A message's data array is represented by its length (-1: undefined),    *)
(* the only thing the controller reads of it.                              *)
(*                                                                         *)
(* The result table (src/unnamed/part_002, DataTable) is modelled by the   *)
(* specification TableSpec, over its own variables: its props and its      *)
(* three pieces of state, plus the lines of the last CSV export.  A record *)
(* is a sequence of <<key, value>> pairs in key order; a value carries its *)
(* JavaScript type.  The message formatter (src/unnamed/part_001,          *)
(* formatMessage) is modelled by FormatSpec and the key handler of the     *)
(* input control (ChatInterface.tsx, handleKeyPress) by KeySpec.  The      *)
(* copy action of the message view (copyToClipboard) is modelled by        *)
(* CopySpec, with time in milliseconds advancing in steps.  Each           *)
(* specification leaves the components it is not about at rest.           *)
(***************************************************************************)
EXTENDS Integers, Sequences, FiniteSets, Bags, TLC

\* ------------------------------------------------------------ bounds
\* Largest message log the model explores (messages plus requests in flight).
MaxLog == 5
\* Largest number of query requests in flight at once.
MaxInFlight == 2
\* Largest pageSize prop the table is mounted with.
MaxPageSize == 3
\* Longest message text formatted, all texts up to it being tried.
MaxText == 5
\* Largest number of copy timers pending at once.
MaxTimers == 2
\* Largest number of clipboard writes pending at once.
MaxWrites == 2

\* ------------------------------------------------------------ values
Undefined == "undefined"
NoData == -1

\* The characters String.prototype.trim strips that occur in the model.
WhiteSpace == {" ", "\n"}

\* What the user may type into the input control (onChange, line 196).
Inputs ==
  { <<>>, <<" ", "\n">>, <<"q">>, <<" ", "p", " ">> }

MessageTypes == {"user", "bot", "system", "error"}

\* A message of the log (interface Message, lines 11-19).
Message(text, type, sql, data, clar) ==
  [ message |-> text, message_type |-> type, sql_query |-> sql,
    data |-> data, clarification_needed |-> clar ]

\* The message the mount effect puts into the log (lines 37-45).
welcomeMessage == Message(<<"W">>, "system", Undefined, NoData, FALSE)

\* The message clearChat puts into the log (lines 141-146).
welcomeNew == Message(<<"C">>, "system", Undefined, NoData, FALSE)

\* JSON bodies the query endpoint may answer with (a 2xx response).
Response(text, type, cid, sql, data, clar) ==
  [ response |-> text, message_type |-> type, conversation_id |-> cid,
    sql_query |-> sql, data |-> data, clarification_needed |-> clar ]

Responses ==
  { Response(<<"r">>, "bot", "", "S", NoData, TRUE),
    Response(<<"q">>, "bot", "c1", "S", 2, FALSE),
    Response(<<"r">>, "error", "c2", Undefined, 2, FALSE),
    Response(<<"r">>, "user", "", Undefined, 0, FALSE) }

\* The ways a request fails: fetch rejects, the status is not 2xx
\* (line 61), response.json() throws (line 62).
Failures == {"fetch", "http", "json"}

\* The text of the Error the failure raises.
ErrorText(f) ==
  CASE f = "fetch" -> <<"f">>
    [] f = "http" -> <<"h">>
    [] OTHER -> <<"j">>

\* The body of the POST (lines 54-59); conversation_id "" stands for the
\* omitted field (conversationId || undefined).  The same value is the
\* conversationId the closure of this sendQuery call captured.
Request(question, cid, override, sql) ==
  [ question |-> question, conversation_id |-> cid,
    override |-> override, sql_query |-> sql ]

\* ------------------------------------------------------------ state
VARIABLES
  messages,        \* useState<Message[]> (line 26), after the mount effect
  input,           \* useState('') (line 27)
  isLoading,       \* useState(false) (line 28)
  conversationId,  \* useState<string>('') (line 29)
  inFlight,        \* the bag of sendQuery calls suspended at await fetch (line 51)
  last,            \* the handler that ran last and what it did
  tableData,       \* DataTable: the data prop (part_002 line 12)
  pageSize,        \* DataTable: the pageSize prop (line 12)
  currentPage,     \* DataTable: useState(1) (line 13)
  searchTerm,      \* DataTable: useState('') (line 14)
  hiddenColumns,   \* DataTable: useState(new Set()) (line 15)
  csv,             \* DataTable: the lines of the last export (line 56)
  formatText,      \* ChatMessage: message.message given to formatMessage
  formatted,       \* ChatMessage: the segments formatMessage returned
  keyEvent,        \* the KeyboardEvent handleKeyPress was last given
  copiedSql,       \* ChatMessage: useState(false) (part_001 line 24)
  writes,          \* ChatMessage: copyToClipboard calls suspended at await (line 29)
  timers,          \* ChatMessage: ms left of each pending setTimeout (line 32)
  sinceWrite,      \* ms since the last clipboard write that succeeded
  copyLast         \* what the last step of the copy action did

vars == <<messages, input, isLoading, conversationId, inFlight, last>>

tableVars == <<tableData, pageSize, currentPage, searchTerm, hiddenColumns, csv>>

formatVars == <<formatText, formatted>>

keyVars == <<keyEvent>>

copyVars == <<copiedSql, writes, timers, sinceWrite, copyLast>>

allVars == <<vars, tableVars, formatVars, keyVars, copyVars>>

\* The table while the chat specification runs: not mounted.
TableAtRest ==
  /\ tableData = <<>>
  /\ pageSize = 1
  /\ currentPage = 1
  /\ searchTerm = <<>>
  /\ hiddenColumns = {}
  /\ csv = <<>>

\* No message is being formatted.
FormatAtRest ==
  /\ formatText = <<>>
  /\ formatted = <<>>

\* A KeyboardEvent (key, shiftKey) and whether preventDefault was called on it.
KeyboardEvent(key, shiftKey, defaultPrevented) ==
  [ key |-> key, shiftKey |-> shiftKey, defaultPrevented |-> defaultPrevented ]

\* No key was pressed yet.
KeyAtRest ==
  keyEvent = KeyboardEvent("", FALSE, FALSE)

\* The delay given to setTimeout (line 32), in milliseconds.
TimeoutMs == 2000

\* What a step of the copy action did: the step, the toast it raised and
\* how the promise of copyToClipboard settled.
CopyEvent(op, toast, settled) ==
  [ op |-> op, toast |-> toast, settled |-> settled ]

\* The message view as mounted: not copied, nothing pending.
CopyAtRest ==
  /\ copiedSql = FALSE
  /\ writes = 0
  /\ timers = <<>>
  /\ sinceWrite = TimeoutMs
  /\ copyLast = CopyEvent("mount", "none", "none")

\* What the last step did: the handler, the log index of the message it was
\* given (0: none), the number of requests it issued, the toast it raised,
\* how the request ended ("ok" or a failure) and how the promise of
\* sendQuery settled.
Event(op, arg, issued, toast, outcome, settled) ==
  [ op |-> op, arg |-> arg, issued |-> issued,
    toast |-> toast, outcome |-> outcome, settled |-> settled ]

\* ------------------------------------------------------------ helpers
\* String.prototype.trim (line 101): strips white space at both ends.
RECURSIVE trimStart(_)
trimStart(s) ==
  IF s # <<>> /\ Head(s) \in WhiteSpace THEN trimStart(Tail(s)) ELSE s

RECURSIVE trimEnd(_)
trimEnd(s) ==
  IF s # <<>> /\ s[Len(s)] \in WhiteSpace
  THEN trimEnd(SubSeq(s, 1, Len(s) - 1))
  ELSE s

trim(s) == trimEnd(trimStart(s))

\* The model's bound on the log: n more entries still fit.
Room(n) == Len(messages) + BagCardinality(inFlight) + n <= MaxLog

\* ------------------------------------------------------------ sendQuery
\* sendQuery up to await fetch (lines 48-60): the flag is set and the POST
\* leaves with the conversationId of the render the handler belongs to.
sendQueryStart(question, override, sql) ==
  /\ isLoading' = TRUE
  /\ inFlight' =
       inFlight (+) SetToBag({Request(question, conversationId, override, sql)})

\* The message built from a 2xx JSON answer (lines 66-74).
botMessage(data) ==
  Message(data.response, data.message_type, data.sql_query, data.data,
          data.clarification_needed)

\* The message built in the catch block (lines 83-88).
errorMessage(f) ==
  Message(<<"X">> \o ErrorText(f), "error", Undefined, NoData, FALSE)

\* sendQueryTry putting the new message in front of the log.
sendQueryTryPrepending(r, data) ==
  /\ conversationId' =
       IF data.conversation_id # "" /\ r.conversation_id = ""
       THEN data.conversation_id
       ELSE conversationId
  /\ messages' = <<botMessage(data)>> \o messages
  /\ last' = Event("sendQuery", 0, 0,
                   IF data.message_type = "bot" /\ data.data > 0
                   THEN "Query Successful" ELSE "none",
                   "ok", "fulfilled")

\* sendQueryTry raising the success toast for rows of any message type.
sendQueryTryToastAnyType(r, data) ==
  /\ conversationId' =
       IF data.conversation_id # "" /\ r.conversation_id = ""
       THEN data.conversation_id
       ELSE conversationId
  /\ messages' = Append(messages, botMessage(data))
  /\ last' = Event("sendQuery", 0, 0,
                   IF data.data > 0 THEN "Query Successful" ELSE "none",
                   "ok", "fulfilled")

\* The try block after the answer arrived (lines 62-80), for the call in
\* flight that sent r.  conversationId in line 64 is the value the call
\* captured.
sendQueryTry(r, data) ==
  /\ conversationId' =
       IF data.conversation_id # "" /\ r.conversation_id = ""
       THEN data.conversation_id
       ELSE conversationId
  /\ messages' = Append(messages, botMessage(data))
  /\ last' = Event("sendQuery", 0, 0,
                   IF data.message_type = "bot" /\ data.data > 0
                   THEN "Query Successful" ELSE "none",
                   "ok", "fulfilled")

\* sendQueryCatch with the failure only logged to the console.
sendQueryCatchSilent(r, f) ==
  /\ messages' = messages
  /\ conversationId' = conversationId
  /\ last' = Event("sendQuery", 0, 0, "Connection Error", f, "fulfilled")

\* The catch block (lines 81-94), for the call in flight that sent r
\* failing with f.
sendQueryCatch(r, f) ==
  /\ messages' = Append(messages, errorMessage(f))
  /\ conversationId' = conversationId
  /\ last' = Event("sendQuery", 0, 0, "Connection Error", f, "fulfilled")

\* sendQuery without the finally block.
sendQueryFinallyMissing ==
  isLoading' = isLoading

\* The finally block (lines 95-97).
sendQueryFinally ==
  isLoading' = FALSE

\* A request in flight is answered with a 2xx JSON body.
QueryResolves ==
  \E r \in BagToSet(inFlight) : \E data \in Responses :
    /\ sendQueryTry(r, data)
    /\ sendQueryFinally
    /\ inFlight' = inFlight (-) SetToBag({r})
    /\ UNCHANGED input

\* A request in flight fails: fetch rejects, non-2xx status, or bad JSON.
QueryFails ==
  \E r \in BagToSet(inFlight) : \E f \in Failures :
    /\ sendQueryCatch(r, f)
    /\ sendQueryFinally
    /\ inFlight' = inFlight (-) SetToBag({r})
    /\ UNCHANGED input

\* ------------------------------------------------------------ handlers
\* onChange of the input control (line 196); the control is disabled while
\* isLoading (line 199).
onChange(v) ==
  /\ ~isLoading
  /\ input' = v
  /\ last' = Event("onChange", 0, 0, "none", "none", "none")
  /\ UNCHANGED <<messages, isLoading, conversationId, inFlight>>

\* The early return of sendMessage without the test of isLoading.
sendMessageReturnsOnBlankOnly ==
  trim(input) = <<>>

\* The early return of sendMessage (line 101).
sendMessageReturns ==
  trim(input) = <<>> \/ isLoading

\* The user message sendMessage appends (lines 102-107).
userMessage(text) ==
  Message(text, "user", Undefined, NoData, FALSE)

\* sendMessage (lines 100-112).
sendMessage ==
  IF sendMessageReturns
  THEN /\ last' = Event("sendMessage", 0, 0, "none", "none", "none")
       /\ UNCHANGED <<messages, input, isLoading, conversationId, inFlight>>
  ELSE /\ Room(2)
       /\ BagCardinality(inFlight) < MaxInFlight
       /\ messages' = Append(messages, userMessage(input))
       /\ input' = <<>>
       /\ sendQueryStart(input, FALSE, Undefined)
       /\ last' = Event("sendMessage", 0, 1, "none", "none", "none")
       /\ UNCHANGED conversationId

\* The log indexes whose message view shows the Run Anyway and Refine Query
\* buttons (part_001 lines 86-91); the buttons are never disabled.
Clarifications ==
  { i \in DOMAIN messages : messages[i].clarification_needed }

\* handleRunAnyway that also appends the question as a user message.
handleRunAnywayAppending(i) ==
  /\ Room(2)
  /\ BagCardinality(inFlight) < MaxInFlight
  /\ sendQueryStart(messages[i].message, TRUE, messages[i].sql_query)
  /\ messages' = Append(messages, Message(messages[i].message, "user", Undefined, NoData, FALSE))
  /\ last' = Event("handleRunAnyway", i, 1, "none", "none", "none")
  /\ UNCHANGED <<input, conversationId>>

\* handleRunAnyway that leaves the override flag at its default.
handleRunAnywayNoOverride(i) ==
  /\ Room(1)
  /\ BagCardinality(inFlight) < MaxInFlight
  /\ sendQueryStart(messages[i].message, FALSE, messages[i].sql_query)
  /\ last' = Event("handleRunAnyway", i, 1, "none", "none", "none")
  /\ UNCHANGED <<messages, input, conversationId>>

\* handleRunAnyway (lines 115-121), given the i-th message of the log.
handleRunAnyway(i) ==
  /\ Room(1)
  /\ BagCardinality(inFlight) < MaxInFlight
  /\ sendQueryStart(messages[i].message, TRUE, messages[i].sql_query)
  /\ last' = Event("handleRunAnyway", i, 1, "none", "none", "none")
  /\ UNCHANGED <<messages, input, conversationId>>

\* find without the reverse: the first user message among the first n.
firstUserMessage(n) ==
  IF \E i \in 1..n : messages[i].message_type = "user"
  THEN CHOOSE i \in 1..n :
         /\ messages[i].message_type = "user"
         /\ \A j \in 1..(i - 1) : messages[j].message_type # "user"
  ELSE 0

\* [...messages].reverse().find(m => m.message_type === 'user') (line 125):
\* the index of the match among the first n messages, 0 when there is none.
RECURSIVE lastUserMessage(_)
lastUserMessage(n) ==
  IF n = 0 THEN 0
  ELSE IF messages[n].message_type = "user" THEN n
  ELSE lastUserMessage(n - 1)

\* handleRefine (lines 124-129), given the i-th message of the log.
handleRefine(i) ==
  /\ input' =
       IF lastUserMessage(Len(messages)) # 0
       THEN messages[lastUserMessage(Len(messages))].message
       ELSE input
  /\ last' = Event("handleRefine", i, 0, "none", "none", "none")
  /\ UNCHANGED <<messages, isLoading, conversationId, inFlight>>

\* clearChat without the reset of the conversation identifier.
clearChatKeepingId ==
  /\ messages' = <<welcomeNew>>
  /\ conversationId' = conversationId
  /\ last' = Event("clearChat", 0, 0, "none", "none", "none")
  /\ UNCHANGED <<input, isLoading, inFlight>>

\* clearChat (lines 138-148).
clearChat ==
  /\ messages' = <<welcomeNew>>
  /\ conversationId' = ""
  /\ last' = Event("clearChat", 0, 0, "none", "none", "none")
  /\ UNCHANGED <<input, isLoading, inFlight>>

\* ------------------------------------------------------------ specification
\* The state once the component is mounted (lines 26-29 and 37-45).
Init ==
  /\ messages = <<welcomeMessage>>
  /\ input = <<>>
  /\ isLoading = FALSE
  /\ conversationId = ""
  /\ inFlight = EmptyBag
  /\ last = Event("mount", 0, 0, "none", "none", "none")

Next ==
  \/ (\E v \in Inputs : onChange(v)) /\ UNCHANGED <<tableVars, formatVars, keyVars, copyVars>>
  \/ sendMessage /\ UNCHANGED <<tableVars, formatVars, keyVars, copyVars>>
  \/ (\E i \in Clarifications : handleRunAnyway(i)) /\ UNCHANGED <<tableVars, formatVars, keyVars, copyVars>>
  \/ (\E i \in Clarifications : handleRefine(i)) /\ UNCHANGED <<tableVars, formatVars, keyVars, copyVars>>
  \/ clearChat /\ UNCHANGED <<tableVars, formatVars, keyVars, copyVars>>
  \/ QueryResolves /\ UNCHANGED <<tableVars, formatVars, keyVars, copyVars>>
  \/ QueryFails /\ UNCHANGED <<tableVars, formatVars, keyVars, copyVars>>

\* The chat mounted, no table mounted.
ChatInit == Init /\ TableAtRest /\ FormatAtRest /\ KeyAtRest /\ CopyAtRest

Spec == ChatInit /\ [][Next]_allVars

TypeOK ==
  /\ messages \in Seq([ message : Seq(STRING), message_type : MessageTypes,
                        sql_query : STRING, data : Int,
                        clarification_needed : BOOLEAN ])
  /\ isLoading \in BOOLEAN
  /\ Len(messages) <= MaxLog

\* ------------------------------------------------------------ result table
\* JavaScript values of a record.
Num(n) == [ t |-> "number", n |-> n, s |-> <<>> ]
Str(s) == [ t |-> "string", n |-> 0, s |-> s ]
Bool(b) == [ t |-> "boolean", n |-> IF b THEN 1 ELSE 0, s |-> <<>> ]
Null == [ t |-> "null", n |-> 0, s |-> <<>> ]
Undef == [ t |-> "undefined", n |-> 0, s |-> <<>> ]

\* The tables the component is mounted with (the data prop, line 12).
Datasets ==
  { << << <<"id", Num(1)>>, <<"name", Str(<<"A", "b">>)>> >>,
       << <<"id", Num(0)>>, <<"name", Str(<<"b">>)>> >>,
       << <<"id", Num(12)>>, <<"name", Str(<<>>)>> >> >>,
    << << <<"ok", Bool(FALSE)>>, <<"v", Null>>, <<"n", Num(1)>> >>,
       << <<"ok", Bool(TRUE)>>, <<"v", Str(<<"a">>)>>, <<"n", Num(0)>> >> >>,
    << << <<"id", Num(1)>> >>, << <<"id", Num(2)>> >>, << <<"id", Num(3)>> >>,
       << <<"id", Num(11)>> >>, << <<"id", Num(21)>> >> >>,
    << << <<"id", Num(1)>>, <<"name", Str(<<"B">>)>> >>,
       << <<"id", Num(2)>> >> >> }

\* What the user may type into the search box (line 91).
SearchTerms ==
  { <<>>, <<"b">>, <<"A">>, <<"1">>, <<"z">> }

\* String(value) (lines 32 and 54).
Digits == <<"0", "1", "2", "3", "4", "5", "6", "7", "8", "9">>

RECURSIVE NumberToString(_)
NumberToString(n) ==
  IF n < 10 THEN <<Digits[n + 1]>>
  ELSE NumberToString(n \div 10) \o <<Digits[(n % 10) + 1]>>

String(value) ==
  CASE value.t = "number" -> NumberToString(value.n)
    [] value.t = "string" -> value.s
    [] value.t = "boolean" ->
         IF value.n = 1 THEN <<"t", "r", "u", "e">>
         ELSE <<"f", "a", "l", "s", "e">>
    [] value.t = "null" -> <<"n", "u", "l", "l">>
    [] OTHER -> <<"u", "n", "d", "e", "f", "i", "n", "e", "d">>

\* String.prototype.toLowerCase (line 32) on the model's letters.
toLowerCase(s) ==
  [ i \in DOMAIN s |->
      CASE s[i] = "A" -> "a"
        [] s[i] = "B" -> "b"
        [] OTHER -> s[i] ]

\* String.prototype.includes (line 32).
includes(s, search) ==
  \E i \in 0..(Len(s) - Len(search)) :
    SubSeq(s, i + 1, i + Len(search)) = search

\* Object.keys(row) and Object.values(row).
Keys(row) == [ i \in DOMAIN row |-> row[i][1] ]
Values(row) == [ i \in DOMAIN row |-> row[i][2] ]

\* row[col]: undefined when the record has no such key.
Get(row, col) ==
  IF \E i \in DOMAIN row : row[i][1] = col
  THEN row[CHOOSE i \in DOMAIN row : row[i][1] = col][2]
  ELSE Undef

\* value || '' (line 54): the value, or '' when it is falsy.
OrEmpty(value) ==
  IF \/ value.t \in {"null", "undefined"}
     \/ value.t = "number" /\ value.n = 0
     \/ value.t = "boolean" /\ value.n = 0
     \/ value.t = "string" /\ value.s = <<>>
  THEN Str(<<>>)
  ELSE value

\* The component renders its controls only for a non-empty table (line 17).
Rendered == Len(tableData) > 0

\* allColumns and visibleColumns (lines 26-27).
allColumns == IF Rendered THEN Keys(tableData[1]) ELSE <<>>

Visible(col) == col \notin hiddenColumns

visibleColumns == SelectSeq(allColumns, Visible)

\* The filter looking at the visible columns only.
RowMatchesVisibleOnly(row) ==
  \E i \in DOMAIN row :
    /\ Visible(Keys(row)[i])
    /\ includes(toLowerCase(String(Values(row)[i])), toLowerCase(searchTerm))

\* filteredData (lines 30-34).
RowMatches(row) ==
  \E i \in DOMAIN row :
    includes(toLowerCase(String(Values(row)[i])), toLowerCase(searchTerm))

filteredData == SelectSeq(tableData, RowMatches)

\* Math.ceil(n / d) for d >= 1 (line 37).
Ceil(n, d) == (n + d - 1) \div d

\* Array.prototype.slice(start, end) for 0 <= start (line 39).
Min(a, b) == IF a < b THEN a ELSE b
Max(a, b) == IF a > b THEN a ELSE b
slice(a, start, end) == SubSeq(a, start + 1, Min(end, Len(a)))

\* Pagination (lines 37-39); startIndex and paginatedData for a given page,
\* which the render takes at currentPage.
totalPages == Ceil(Len(filteredData), pageSize)

\* startIndex taking the page number as zero-based.
startIndexZeroBased(page) == page * pageSize

startIndex(page) == (page - 1) * pageSize

paginatedData(page) ==
  slice(filteredData, startIndex(page), startIndex(page) + pageSize)

\* onChange of the search box without the reset of the page.
onSearchChangeKeepingPage(term) ==
  /\ Rendered
  /\ searchTerm' = term
  /\ UNCHANGED <<tableData, pageSize, currentPage, hiddenColumns, csv>>

\* onChange of the search box (lines 90-93).
onSearchChange(term) ==
  /\ Rendered
  /\ searchTerm' = term
  /\ currentPage' = 1
  /\ UNCHANGED <<tableData, pageSize, hiddenColumns, csv>>

\* The Previous button (lines 158-165).
previousPage ==
  /\ Rendered
  /\ totalPages > 1
  /\ currentPage # 1
  /\ currentPage' = Max(1, currentPage - 1)
  /\ UNCHANGED <<tableData, pageSize, searchTerm, hiddenColumns, csv>>

\* The Next button (lines 158 and 176-181).
nextPage ==
  /\ Rendered
  /\ totalPages > 1
  /\ currentPage # totalPages
  /\ currentPage' = Min(totalPages, currentPage + 1)
  /\ UNCHANGED <<tableData, pageSize, searchTerm, hiddenColumns, csv>>

\* toggleColumn (lines 41-49), from a column toggle button (lines 109-119).
toggleColumn(column) ==
  /\ Rendered
  /\ hiddenColumns' =
       IF column \in hiddenColumns
       THEN hiddenColumns \ {column}
       ELSE hiddenColumns \cup {column}
  /\ UNCHANGED <<tableData, pageSize, currentPage, searchTerm, csv>>

\* One field of a data line (line 54).
csvField(row, col) ==
  <<"\"">> \o String(OrEmpty(Get(row, col))) \o <<"\"">>

\* One data line (line 54), as its fields; join(',') makes the line of them.
csvRow(row) ==
  [ i \in DOMAIN visibleColumns |-> csvField(row, visibleColumns[i]) ]

\* exportToCSV writing the rows of the current page only.
exportToCSVCurrentPage ==
  /\ Rendered
  /\ csv' = <<visibleColumns>> \o
            [ i \in DOMAIN paginatedData(currentPage) |->
                csvRow(paginatedData(currentPage)[i]) ]
  /\ UNCHANGED <<tableData, pageSize, currentPage, searchTerm, hiddenColumns>>

\* exportToCSV (lines 51-57): the header, then one line per filtered row.
\* The lines are kept as the arrays join(',') and join('\n') are applied to.
exportToCSV ==
  /\ Rendered
  /\ csv' = <<visibleColumns>> \o
            [ i \in DOMAIN filteredData |-> csvRow(filteredData[i]) ]
  /\ UNCHANGED <<tableData, pageSize, currentPage, searchTerm, hiddenColumns>>

\* The table once mounted with some data and page size (lines 12-15).
TableInit ==
  /\ tableData \in Datasets \cup {<<>>}
  /\ pageSize \in 1..MaxPageSize
  /\ currentPage = 1
  /\ searchTerm = <<>>
  /\ hiddenColumns = {}
  /\ csv = <<>>

TableNext ==
  \/ (\E term \in SearchTerms : onSearchChange(term)) /\ UNCHANGED <<vars, formatVars, keyVars, copyVars>>
  \/ previousPage /\ UNCHANGED <<vars, formatVars, keyVars, copyVars>>
  \/ nextPage /\ UNCHANGED <<vars, formatVars, keyVars, copyVars>>
  \/ (\E i \in DOMAIN allColumns : toggleColumn(allColumns[i])) /\ UNCHANGED <<vars, formatVars, keyVars, copyVars>>
  \/ exportToCSV /\ UNCHANGED <<vars, formatVars, keyVars, copyVars>>

\* A table mounted, the chat left alone.
TableMounted == Init /\ TableInit /\ FormatAtRest /\ KeyAtRest /\ CopyAtRest

TableSpec == TableMounted /\ [][TableNext]_allVars

\* ------------------------------------------------------------ formatter
\* The backtick of the source (U+0060); a TLA+ string cannot hold that
\* character, so the apostrophe stands for it.
Backtick == "'"

\* The characters of the texts formatted: the two delimiters, a letter and
\* the line break.
Alphabet == {"*", Backtick, "a", "\n"}

\* The texts formatted: every text up to MaxText characters, and fenced
\* blocks (three backticks, a content without backticks, three backticks).
Fence == <<Backtick, Backtick, Backtick>>

Fenced ==
  { Fence \o c \o Fence :
      c \in UNION { [1..n -> Alphabet \ {Backtick}] : n \in 0..2 } }

Texts ==
  UNION { [1..n -> Alphabet] : n \in 0..MaxText } \cup Fenced

\* s has pat at index i (from 1).
At(s, i, pat) ==
  /\ i >= 1
  /\ i + Len(pat) - 1 <= Len(s)
  /\ SubSeq(s, i, i + Len(pat) - 1) = pat

\* The last index of the match of  open X*? close  at index i of s, 0 when
\* it does not match there; X is any character (dotAll, [\s\S]) or any but
\* a line break (.).  The lazy quantifier stops at the first close.
Lazy(s, i, open, close, dotAll) ==
  LET from == i + Len(open)
      ends == { j \in from..Len(s) : At(s, j, close) }
  IN  IF ~At(s, i, open) \/ ends = {} THEN 0
      ELSE LET j == CHOOSE e \in ends : \A f \in ends : e <= f
           IN  IF dotAll \/ \A k \in from..(j - 1) : s[k] # "\n"
               THEN j + Len(close) - 1
               ELSE 0

\* The last index of the match of the pattern of line 39 at index i of s, 0
\* when there is none: its alternatives are tried in the order written,
\* bold first, then inline code, then the fenced block.
matchEnd(s, i) ==
  IF Lazy(s, i, <<"*", "*">>, <<"*", "*">>, FALSE) # 0
  THEN Lazy(s, i, <<"*", "*">>, <<"*", "*">>, FALSE)
  ELSE IF Lazy(s, i, <<Backtick>>, <<Backtick>>, FALSE) # 0
  THEN Lazy(s, i, <<Backtick>>, <<Backtick>>, FALSE)
  ELSE Lazy(s, i, Fence, Fence, TRUE)

\* text.split(/(...)/) (line 39): the text before each match and the match,
\* then the rest; p is where the current piece starts, q where the search is.
RECURSIVE split(_, _, _)
split(s, p, q) ==
  IF q > Len(s) THEN <<SubSeq(s, p, Len(s))>>
  ELSE IF matchEnd(s, q) = 0 THEN split(s, p, q + 1)
  ELSE <<SubSeq(s, p, q - 1), SubSeq(s, q, matchEnd(s, q))>>
         \o split(s, matchEnd(s, q) + 1, matchEnd(s, q) + 1)

\* part.slice(n, -n) (lines 41, 43, 53).
sliceBoth(part, n) == SubSeq(part, n + 1, Len(part) - n)

\* part.startsWith(d) && part.endsWith(d).
Wrapped(part, d) ==
  /\ At(part, 1, d)
  /\ At(part, Len(part) - Len(d) + 1, d)

\* part.split('\n') (line 54).
RECURSIVE splitLines(_)
splitLines(part) ==
  IF \E i \in DOMAIN part : part[i] = "\n"
  THEN LET i == CHOOSE k \in DOMAIN part :
                  part[k] = "\n" /\ \A j \in 1..(k - 1) : part[j] # "\n"
       IN  <<SubSeq(part, 1, i - 1)>> \o splitLines(SubSeq(part, i + 1, Len(part)))
  ELSE <<part>>

\* An element formatMessage returns: <strong>, the code block, <code>, or
\* the lines of plain text with <br /> between them.
Segment(kind, lines) == [ kind |-> kind, lines |-> lines ]

\* The callback of parts.map (lines 40-55).
renderPart(part) ==
  IF Wrapped(part, <<"*", "*">>) THEN Segment("bold", <<sliceBoth(part, 2)>>)
  ELSE IF Wrapped(part, Fence) THEN Segment("code-block", <<sliceBoth(part, 3)>>)
  ELSE IF Wrapped(part, <<Backtick>>) THEN Segment("inline-code", <<sliceBoth(part, 1)>>)
  ELSE Segment("plain", splitLines(part))

\* formatMessage (lines 38-56).
formatMessage(t) ==
  [ i \in DOMAIN split(t, 1, 1) |-> renderPart(split(t, 1, 1)[i]) ]

\* A message view is rendered: its text is formatted.
render ==
  /\ formatted = <<>>
  /\ formatted' = formatMessage(formatText)
  /\ UNCHANGED formatText

\* A message view with some text, not rendered yet.
FormatInit ==
  /\ formatText \in Texts
  /\ formatted = <<>>

FormatNext ==
  \/ render /\ UNCHANGED <<vars, tableVars, keyVars, copyVars>>

FormatMounted == Init /\ TableAtRest /\ FormatInit /\ KeyAtRest /\ CopyAtRest

FormatSpec == FormatMounted /\ [][FormatNext]_allVars

\* ------------------------------------------------------------ key handler
\* The keys pressed in the input control: Enter and some other key.
KeyNames == {"Enter", "a"}

\* handleKeyPress that does not look at the shift modifier.
handleKeyPressAnyEnter(key, shiftKey) ==
  /\ ~isLoading
  /\ IF key = "Enter"
     THEN /\ keyEvent' = KeyboardEvent(key, shiftKey, TRUE)
          /\ sendMessage
     ELSE /\ keyEvent' = KeyboardEvent(key, shiftKey, FALSE)
          /\ UNCHANGED vars

\* handleKeyPress (lines 131-136), the onKeyPress of the input control
\* (line 197); the control is disabled while isLoading (line 199).
handleKeyPress(key, shiftKey) ==
  /\ ~isLoading
  /\ IF key = "Enter" /\ ~shiftKey
     THEN /\ keyEvent' = KeyboardEvent(key, shiftKey, TRUE)
          /\ sendMessage
     ELSE /\ keyEvent' = KeyboardEvent(key, shiftKey, FALSE)
          /\ UNCHANGED vars

\* The input control in use: keys pressed, text typed, requests answered.
KeyNext ==
  \/ (\E key \in KeyNames : \E shiftKey \in BOOLEAN : handleKeyPress(key, shiftKey))
       /\ UNCHANGED <<tableVars, formatVars, copyVars>>
  \/ (\E v \in Inputs : onChange(v)) /\ UNCHANGED <<tableVars, formatVars, keyVars, copyVars>>
  \/ QueryResolves /\ UNCHANGED <<tableVars, formatVars, keyVars, copyVars>>
  \/ QueryFails /\ UNCHANGED <<tableVars, formatVars, keyVars, copyVars>>

KeyMounted == Init /\ TableAtRest /\ FormatAtRest /\ KeyAtRest /\ CopyAtRest

KeySpec == KeyMounted /\ [][KeyNext]_allVars

\* ------------------------------------------------------------ copy action
\* The amounts of time, in milliseconds, that pass between two steps.
TickSteps == {500, 1000}

\* copyToClipboard is called (the onClick of line 47) and suspends at
\* await navigator.clipboard.writeText (line 29).
copyToClipboard ==
  /\ writes < MaxWrites
  /\ writes' = writes + 1
  /\ copyLast' = CopyEvent("copyToClipboard", "none", "pending")
  /\ UNCHANGED <<copiedSql, timers, sinceWrite>>

\* The clipboard write succeeded (lines 30-32): the flag is set, the toast
\* raised and a timer of TimeoutMs started; no earlier timer is cancelled.
copyTry ==
  /\ writes > 0
  /\ Len(timers) < MaxTimers
  /\ writes' = writes - 1
  /\ copiedSql' = TRUE
  /\ timers' = Append(timers, TimeoutMs)
  /\ sinceWrite' = 0
  /\ copyLast' = CopyEvent("try", "Copied!", "fulfilled")

\* The clipboard write failed (lines 33-35).
copyCatch ==
  /\ writes > 0
  /\ writes' = writes - 1
  /\ copyLast' = CopyEvent("catch", "Copy failed", "fulfilled")
  /\ UNCHANGED <<copiedSql, timers, sinceWrite>>

\* The callback of the oldest timer runs, once its delay has passed
\* (line 32): setCopiedSql(false).
copyTimeout ==
  /\ timers # <<>>
  /\ Head(timers) = 0
  /\ timers' = Tail(timers)
  /\ copiedSql' = FALSE
  /\ copyLast' = CopyEvent("timeout", "none", "none")
  /\ UNCHANGED <<writes, sinceWrite>>

\* d milliseconds pass; a timer that is due may still run later.
tick(d) ==
  /\ timers' = [ i \in DOMAIN timers |-> Max(0, timers[i] - d) ]
  /\ sinceWrite' = Min(TimeoutMs, sinceWrite + d)
  /\ copyLast' = CopyEvent("tick", "none", "none")
  /\ UNCHANGED <<copiedSql, writes>>

CopyNext ==
  \/ copyToClipboard /\ UNCHANGED <<vars, tableVars, formatVars, keyVars>>
  \/ copyTry /\ UNCHANGED <<vars, tableVars, formatVars, keyVars>>
  \/ copyCatch /\ UNCHANGED <<vars, tableVars, formatVars, keyVars>>
  \/ copyTimeout /\ UNCHANGED <<vars, tableVars, formatVars, keyVars>>
  \/ (\E d \in TickSteps : tick(d)) /\ UNCHANGED <<vars, tableVars, formatVars, keyVars>>

\* A message view mounted, the chat left alone.
CopyMounted == Init /\ TableAtRest /\ FormatAtRest /\ KeyAtRest /\ CopyAtRest

CopySpec == CopyMounted /\ [][CopyNext]_allVars


\* ------------------------------------------------------------ properties
\* A text of white space only (or empty).
Blank(s) == \A i \in DOMAIN s : s[i] \in WhiteSpace

\* The log indexes holding a message of the given role.
WithRole(type) == { i \in DOMAIN messages : messages[i].message_type = type }

\* The step issued exactly one request, r.
IssuedExactly(r) ==
  inFlight' = inFlight (+) SetToBag({r})

\* The step appended exactly one message to the log and changed no other.
AppendedOne ==
  /\ Len(messages') = Len(messages) + 1
  /\ SubSeq(messages', 1, Len(messages)) = messages

\* C1: at most one query request is outstanding in every reachable state.
C1_AtMostOneOutstanding ==
  BagCardinality(inFlight) <= 1

\* C2: once sendQuery has finished, whatever the outcome (2xx answer, non-2xx
\* status, fetch or JSON parsing throwing), isLoading is false, so sendMessage
\* with a non-blank input does not return early.
C2_PendingClearedOnCompletion ==
  last.op = "sendQuery" =>
    /\ isLoading = FALSE
    /\ ~Blank(input) => ~sendMessageReturns

C2_Witness ==
  /\ last.op = "sendQuery"
  /\ last.outcome = "json"
  /\ ~isLoading
  /\ ~Blank(input)

\* C3: a request failing by a rejected fetch or a non-2xx status appends
\* exactly one message, of role error, keeps the earlier log entries and the
\* conversation identifier, and the promise of sendQuery does not reject.
C3_FailureAppendsOneError ==
  [][ (last'.op = "sendQuery" /\ last'.outcome \in {"fetch", "http"}) =>
        /\ AppendedOne
        /\ messages'[Len(messages')].message_type = "error"
        /\ conversationId' = conversationId
        /\ last'.settled = "fulfilled" ]_vars

C3_Witness ==
  /\ last.op = "sendQuery"
  /\ last.outcome = "http"
  /\ Len(messages) >= 3
  /\ messages[Len(messages)].message_type = "error"
  /\ conversationId # ""

\* C4 as claimed: every action that issues a request appends exactly one
\* user message at issuance.
C4_IssuanceAppendsUserMessage ==
  [][ last'.issued = 1 =>
        /\ AppendedOne
        /\ messages'[Len(messages')].message_type = "user" ]_vars

\* C4 as amended: an accepted sendMessage appends exactly one user message
\* holding the input, handleRunAnyway appends no message, and every
\* completion of a request appends exactly one message, of role error when
\* the request failed.
C4_Lifecycle ==
  [][ /\ (last'.op = "sendMessage" /\ last'.issued = 1) =>
           messages' = Append(messages, Message(input, "user", Undefined, NoData, FALSE))
      /\ last'.op = "handleRunAnyway" =>
           (last'.issued = 1 /\ messages' = messages)
      /\ last'.op = "sendQuery" =>
           /\ AppendedOne
           /\ last'.outcome \in Failures =>
                messages'[Len(messages')].message_type = "error" ]_vars

\* A log with more replies than user messages, after a handleRunAnyway
\* completed.
C4_Witness ==
  /\ last.op = "sendQuery"
  /\ messages[1] = welcomeMessage
  /\ Cardinality(WithRole("user")) = 1
  /\ Cardinality(WithRole("bot")) = 2

C6_IdentifierStable ==
  [][ (conversationId # "" /\ last'.op # "clearChat") =>
        conversationId' = conversationId ]_vars

C8_RunAnywayAsksOriginalQuestion ==
  [][ ( /\ last'.op = "handleRunAnyway"
        /\ last'.arg > 1
        /\ messages[last'.arg].message_type = "bot"
        /\ messages[last'.arg - 1].message_type = "user" ) =>
        IssuedExactly([ question |-> messages[last'.arg - 1].message,
                        conversation_id |-> conversationId,
                        override |-> TRUE,
                        sql_query |-> messages[last'.arg].sql_query ]) ]_vars

\* C9: handleRefine issues no request and changes neither the log, the
\* conversation identifier nor the pending flag; the input becomes the text
\* of the user message with the largest log index, whichever message was
\* passed, and stays as it is when the log has no user message.
C9_RefineRecallsLastUserMessage ==
  [][ last'.op = "handleRefine" =>
        /\ UNCHANGED <<messages, conversationId, isLoading, inFlight>>
        /\ last'.issued = 0
        /\ input' =
             IF WithRole("user") = {} THEN input
             ELSE messages[CHOOSE i \in WithRole("user") :
                             \A j \in WithRole("user") : j <= i].message ]_vars

\* Refine was given an earlier clarification and recalled the later of two
\* different user messages.
C9_Witness ==
  /\ last.op = "handleRefine"
  /\ \E i, j \in WithRole("user") :
       /\ i < j
       /\ last.arg < j
       /\ messages[i].message # messages[j].message
       /\ \A k \in WithRole("user") : k <= j
       /\ input = messages[j].message

\* C10: clearChat issues no request and leaves a log of exactly one message,
\* of role system, and an empty conversation identifier.
C10_ClearResets ==
  [][ last'.op = "clearChat" =>
        /\ Len(messages') = 1
        /\ messages'[1].message_type = "system"
        /\ conversationId' = ""
        /\ inFlight' = inFlight
        /\ last'.issued = 0 ]_vars

\* clearChat ran on a log of several messages with an identifier adopted; the
\* request then in flight is the one issued with that identifier.
C10_Witness ==
  /\ last.op = "clearChat"
  /\ Len(messages) = 1
  /\ conversationId = ""
  /\ \E r \in BagToSet(inFlight) : r.conversation_id # ""

\* C11: every step other than clearChat leaves the log as it is or appends
\* exactly one message at its end, so the earlier log stays a prefix; an
\* accepted sendMessage and every completion of a request append theirs at the
\* moment they run, so the log is in completion order.
C11_LogAppendOnly ==
  [][ last'.op # "clearChat" =>
        /\ (messages' = messages) \/ AppendedOne
        /\ (last'.op = "sendQuery" \/ (last'.issued = 1 /\ last'.op = "sendMessage")) =>
             /\ Len(messages') = Len(messages) + 1
             /\ \A i \in DOMAIN messages : messages'[i] = messages[i] ]_vars

\* A request completed while another one, issued before it completed, was
\* still in flight.
C11_Witness ==
  /\ last.op = "sendQuery"
  /\ Len(messages) >= 4
  /\ BagCardinality(inFlight) = 1
  /\ messages[1] = welcomeMessage

\* Two characters that are the same letter, whatever their case.
SameLetter(a, b) ==
  a = b \/ {a, b} \in { {"A", "a"}, {"B", "b"} }

\* text contains term as a case-insensitive substring.
ContainsIgnoringCase(text, term) ==
  \E off \in 0..(Len(text) - Len(term)) :
    \A k \in 1..Len(term) : SameLetter(text[off + k], term[k])

\* The row has a value, in any column, whose text contains the search term.
Kept(row) ==
  \E i \in DOMAIN row : ContainsIgnoringCase(String(row[i][2]), searchTerm)

\* C12: the filtered rows are exactly the rows, in order, with at least one
\* value (of any column, hidden or not) whose text contains the search term
\* as a case-insensitive substring.
C12_FilterKeepsMatchingRows ==
  Rendered => filteredData = SelectSeq(tableData, Kept)

\* A row is kept although the only values that match are in hidden columns,
\* another row is dropped, and the match needs the case to be ignored.
C12_Witness ==
  /\ Rendered
  /\ searchTerm # <<>>
  /\ Len(filteredData) < Len(tableData)
  /\ \E r \in DOMAIN filteredData :
       \A i \in DOMAIN filteredData[r] :
         ContainsIgnoringCase(String(filteredData[r][i][2]), searchTerm) =>
           /\ filteredData[r][i][1] \in hiddenColumns
           /\ ~includes(String(filteredData[r][i][2]), searchTerm)

\* C13 as claimed: the current page always lies in 1..totalPages.
C13_PageInRange ==
  Rendered => currentPage \in 1..totalPages

\* C13 as amended: changing the search term sets the current page to 1, and
\* the current page always lies in 1..max(1, totalPages).
C13_PageInRangeOrFirst ==
  /\ [](Rendered => currentPage \in 1..Max(1, totalPages))
  /\ [][searchTerm' # searchTerm => currentPage' = 1]_tableVars

\* The filter leaves no rows: there are 0 pages and the current page is 1.
C13_Witness ==
  /\ Rendered
  /\ searchTerm # <<>>
  /\ Len(filteredData) = 0
  /\ totalPages = 0
  /\ currentPage = 1

\* The concatenation of the slices of pages 1..n.
RECURSIVE Pages(_)
Pages(n) ==
  IF n = 0 THEN <<>> ELSE Pages(n - 1) \o paginatedData(n)

\* C14: the slices of pages 1..totalPages, concatenated, are the filtered rows
\* in order, and every page but the last holds exactly pageSize rows (the last
\* one between 1 and pageSize).
C14_PagesPartitionFilteredRows ==
  Rendered =>
    /\ Pages(totalPages) = filteredData
    /\ \A p \in 1..(totalPages - 1) : Len(paginatedData(p)) = pageSize
    /\ totalPages > 0 => Len(paginatedData(totalPages)) \in 1..pageSize

\* The last of several pages is shown and is not full.
C14_Witness ==
  /\ Rendered
  /\ totalPages >= 2
  /\ currentPage = totalPages
  /\ Len(paginatedData(currentPage)) < pageSize
  /\ Len(filteredData) < Len(tableData)

\* The i-th column, in key order, of the first record that is not hidden.
NthShown(i) ==
  LET cols == Keys(tableData[1])
      shown == { j \in DOMAIN cols : cols[j] \notin hiddenColumns }
  IN  cols[CHOOSE j \in shown : Cardinality({ k \in shown : k < j }) = i - 1]

\* C15: an export writes a header line and then one line per filtered row
\* (whatever the current page); the header names the columns of the first
\* record that are not hidden, in column order, and every data line has one
\* field per such column.
C15_ExportShape ==
  [][ csv' # csv =>
        LET cols == Keys(tableData[1])
            n == Cardinality({ j \in DOMAIN cols : cols[j] \notin hiddenColumns })
        IN  /\ Len(csv') = 1 + Cardinality({ r \in DOMAIN tableData : Kept(tableData[r]) })
            /\ Len(csv'[1]) = n
            /\ \A i \in 1..n : csv'[1][i] = NthShown(i)
            /\ \A l \in 2..Len(csv') : Len(csv'[l]) = n ]_tableVars

\* An export of more rows than a page holds, with a column hidden.
C15_Witness ==
  /\ Len(csv) - 1 > pageSize
  /\ Len(csv[1]) > 0
  /\ Len(csv[1]) < Len(allColumns)
  /\ currentPage > 1

\* C16: every field of an exported data line is the text of the record's
\* value in that column, between double quotes.
C16_FieldsAreQuotedValues ==
  [][ csv' # csv =>
        \A r \in DOMAIN filteredData : \A k \in DOMAIN visibleColumns :
          (\E i \in DOMAIN filteredData[r] :
             filteredData[r][i][1] = visibleColumns[k]) =>
            csv'[r + 1][k] =
              <<"\"">> \o String(Get(filteredData[r], visibleColumns[k])) \o <<"\"">>
    ]_tableVars

\* The segments rendered are the wanted one and, around it, nothing: the
\* empty texts split leaves before and after a match.
OnlySegment(segment) ==
  /\ \E i \in DOMAIN formatted : formatted[i] = segment
  /\ \A i \in DOMAIN formatted :
       formatted[i] \in {segment, Segment("plain", <<<<>>>>)}

\* C17: a well-formed fenced block (three backticks, a content without
\* backticks, three backticks) is rendered as one code-block segment whose
\* content is the text between the fences; no part of it is rendered as
\* inline code, bold or plain text.
C17_FencedBlockIsOneCodeBlock ==
  (formatted # <<>> /\ formatText \in Fenced) =>
    OnlySegment(Segment("code-block", <<sliceBoth(formatText, 3)>>))

\* The number of occurrences of the character c in s.
Count(s, c) == Cardinality({ i \in DOMAIN s : s[i] = c })

\* No delimiter of s can be matched: inline code needs two backticks and
\* bold four asterisks.
Unmatched(s) ==
  /\ Count(s, Backtick) <= 1
  /\ Count(s, "*") <= 3

\* The lines joined again by line breaks.
RECURSIVE joinLines(_)
joinLines(lines) ==
  IF Len(lines) = 1 THEN lines[1]
  ELSE lines[1] \o <<"\n">> \o joinLines(Tail(lines))

\* C18: a text whose delimiters cannot be matched (at most one backtick, at
\* most three asterisks) is rendered as plain text only, and the plain text
\* is the whole text: no delimiter character is dropped, none becomes an
\* empty bold or code segment.
C18_UnmatchedDelimitersStayLiteral ==
  (formatted # <<>> /\ Unmatched(formatText)) =>
    /\ Len(formatted) = 1
    /\ formatted[1].kind = "plain"
    /\ joinLines(formatted[1].lines) = formatText

\* The step is a submit: sendMessage ran, and unless the input was blank
\* it logged the input as a user message, emptied the input and issued one
\* request for it.
Submitted ==
  /\ last'.op = "sendMessage"
  /\ IF Blank(input)
     THEN UNCHANGED <<messages, input, isLoading, conversationId, inFlight>>
     ELSE /\ AppendedOne
          /\ messages'[Len(messages')] = userMessage(input)
          /\ input' = <<>>
          /\ isLoading'
          /\ IssuedExactly(Request(input, conversationId, FALSE, Undefined))

\* The key event of the step: Enter without shift submits, every other
\* event leaves the chat as it is.
KeySubmits ==
  IF keyEvent'.key = "Enter" /\ ~keyEvent'.shiftKey
  THEN Submitted
  ELSE UNCHANGED vars

\* C19: Enter without shift submits, Enter with shift does not, and the
\* default action is suppressed for Enter with or without shift; another
\* key neither submits nor has its default suppressed.
C19_EnterSuppressedWithOrWithoutShift ==
  [][ keyEvent' # keyEvent =>
        /\ KeySubmits
        /\ keyEvent'.defaultPrevented <=> (keyEvent'.key = "Enter") ]_allVars

\* C19 as amended: Enter without shift submits and has its default action
\* suppressed; Enter with shift and every other key neither submits nor has
\* its default suppressed.
C19_EnterSuppressedWithoutShift ==
  [][ keyEvent' # keyEvent =>
        /\ KeySubmits
        /\ keyEvent'.defaultPrevented <=>
             (keyEvent'.key = "Enter" /\ ~keyEvent'.shiftKey) ]_allVars

\* Shift+Enter was pressed on a text that Enter would have submitted.
C19_Witness ==
  /\ keyEvent = KeyboardEvent("Enter", TRUE, FALSE)
  /\ ~Blank(input)
  /\ ~isLoading
  /\ Len(messages) > 1

\* C20: the success toast is raised by a sendQuery completion exactly when
\* the request succeeded and the answer holds at least one row, whatever the
\* message type of the answer.
C20_SuccessToastIffRows ==
  [][ last'.op = "sendQuery" =>
        ((last'.toast = "Query Successful") <=>
           /\ last'.outcome = "ok"
           /\ messages'[Len(messages')].data > 0) ]_vars

\* C20 as amended: the success toast is raised exactly when the request
\* succeeded and the answer is of type bot and holds at least one row.
C20_SuccessToastIffBotRows ==
  [][ last'.op = "sendQuery" =>
        ((last'.toast = "Query Successful") <=>
           /\ last'.outcome = "ok"
           /\ messages'[Len(messages')].message_type = "bot"
           /\ messages'[Len(messages')].data > 0) ]_vars

\* An answer of another type than bot arrived with rows, and no success
\* toast was raised.
C20_Witness ==
  /\ last.op = "sendQuery"
  /\ last.outcome = "ok"
  /\ last.toast = "none"
  /\ messages[Len(messages)].message_type # "bot"
  /\ messages[Len(messages)].data > 0

C22_PendingFlagAccurate ==
  isLoading <=> (BagCardinality(inFlight) > 0)

\* C23: when the log is the single system message clearChat left and a
\* request is in flight (it was issued before the clear: a submit after the
\* clear would have logged a user message), its completion appends no
\* message to the log and does not set the conversation identifier.
C23_ClearIsolatesSession ==
  [][ (messages = <<welcomeNew>> /\ last'.op = "sendQuery") =>
        /\ messages' = <<welcomeNew>>
        /\ conversationId' = "" ]_vars

====
